---- MODULE Spec2Model ----
(***************************************************************************)
(* croncycle: the run loop of src/croncycle/__main__.py, main().           *)
(*                                                                         *)
(* Time is counted in whole minutes.  Trigger instants of a cron           *)
(* expression lie on minute boundaries, so comparing a trigger instant     *)
(* with the wall clock gives the same answer for the clock and for the     *)
(* clock rounded down to the minute.                                       *)
(***************************************************************************)
EXTENDS Integers, Sequences, FiniteSets

\* Bounds of the model.
MaxTime == 5
MaxCode == 3

\* "Not set yet" for integer-valued fields (a local that is not bound yet).
Unset == 0 - 1

VARIABLES
    cron,           \* the --cron option, split into its fields
    exit_on_error,  \* the --exit-on-error option
    ignored_codes,  \* the --ignored-codes option
    stdin,          \* the --enable-stdin option
    stderr_to_stdout, \* the --stderr-to-stdout option
    no_output,      \* the --no-output option
    now,            \* the wall clock, datetime.now()
    pc,             \* the position of main()
    cur,            \* the cursor of the croniter object `iter`
    anchor,         \* start_time handed to croniter()
    next_run,       \* local next_run
    secs,           \* local secs
    wake,           \* the instant the running time.sleep(secs) ends
    running,        \* number of child processes alive
    returncode,     \* result.returncode of the last completed command
    status,         \* exit status of the process, Unset while it runs
    sigint,         \* position at which an operator interrupt arrived, or "none"
    log,            \* the last record handed to the logger
    runs,           \* every value get_next() returned, in order
    launches,       \* number of subprocess.run() calls made
    waits,          \* number of time.sleep() calls made
    executed,       \* the next_run of every subprocess.run() call, in order
    child_stdin,    \* what the last child started has as standard input
    child_stdout,   \* ... as standard output
    child_stderr    \* ... as standard error

vars == <<cron, exit_on_error, ignored_codes, stdin, stderr_to_stdout,
          no_output, now, pc, cur, anchor, next_run, secs, wake, running,
          returncode, status, sigint, log, runs, launches, waits, executed,
          child_stdin, child_stdout, child_stderr>>

config == <<cron, exit_on_error, ignored_codes, stdin, stderr_to_stdout,
            no_output>>

\* What subprocess.run() sets up and records.
spawned == <<executed, child_stdin, child_stdout, child_stderr>>

(***************************************************************************)
(* The schedule calculator (croniter).                                     *)
(***************************************************************************)
Star(n) == [kind |-> "star", n |-> n]     \* "*" is Star(1), "*/n" is Star(n)
Num(n) == [kind |-> "num", n |-> n]

\* The cron expressions tried: "* * * * *", "*/2 * * * *", "*/3 * * * *",
\* "4 * * * *", and the two invalid ones of the specification,
\* "* * *" and "99 * * * *".
CronExprs ==
    { <<Star(1), Star(1), Star(1), Star(1), Star(1)>>,
      <<Star(2), Star(1), Star(1), Star(1), Star(1)>>,
      <<Star(3), Star(1), Star(1), Star(1), Star(1)>>,
      <<Num(4), Star(1), Star(1), Star(1), Star(1)>>,
      <<Star(1), Star(1), Star(1)>>,
      <<Num(99), Star(1), Star(1), Star(1), Star(1)>> }

\* The range of values of the i-th field: minute, hour, day, month, weekday.
FieldRange(i) ==
    CASE i = 1 -> 0..59
      [] i = 2 -> 0..23
      [] i = 3 -> 1..31
      [] i = 4 -> 1..12
      [] OTHER -> 0..7

FieldValid(f, i) ==
    IF f.kind = "num" THEN f.n \in FieldRange(i) ELSE f.n >= 1

\* croniter(expr) accepts the expression: otherwise it raises
\* CroniterBadCronError.
CronValid(expr) ==
    /\ Len(expr) \in {5, 6}
    /\ \A i \in 1..Len(expr) : FieldValid(expr[i], i)

FieldMatches(f, v) ==
    IF f.kind = "num" THEN v = f.n ELSE v % f.n = 0

\* Minute t is a trigger instant of expr (the day, month and weekday fields
\* of every expression tried are "*").
Matches(expr, t) ==
    /\ FieldMatches(expr[1], t % 60)
    /\ FieldMatches(expr[2], (t \div 60) % 24)

\* A variant of get_next that also accepts the cursor itself.
GetNextInclusive(expr, t) ==
    CHOOSE m \in t..(t + 60) :
        /\ Matches(expr, m)
        /\ \A k \in t..(m - 1) : ~Matches(expr, k)

\* iter.get_next(): the earliest trigger instant strictly after the cursor.
GetNext(expr, t) ==
    CHOOSE m \in (t + 1)..(t + 60) :
        /\ Matches(expr, m)
        /\ \A k \in (t + 1)..(m - 1) : ~Matches(expr, k)

(***************************************************************************)
(* Exceptions.                                                             *)
(***************************************************************************)
Exc(cls, code) == [cls |-> cls, code |-> code]

\* An exception that leaves main(): typer.run turns typer.Exit(code) into
\* exit status code, a KeyboardInterrupt into "Aborted!" and status 1, and
\* any other exception into a traceback and status 1.
Propagate(exc) ==
    [pc |-> "exited",
     status |-> IF exc.cls = "Exit" THEN exc.code ELSE 1,
     log |-> IF exc.cls = "Exit" THEN log
             ELSE IF exc.cls = "KeyboardInterrupt" THEN "aborted" ELSE "traceback"]

\* The classes for which isinstance(e, Exception) holds: typer.Exit is
\* click.exceptions.Exit, a RuntimeError; a spawn failure is an OSError.
\* KeyboardInterrupt and SystemExit derive from BaseException only.
IsException(cls) == cls \in {"Exit", "OSError", "ValueError"}

\* A variant of the handlers whose second clause catches only
\* subprocess.SubprocessError.
ExceptClauseNarrow(cls) ==
    IF cls = "KeyboardInterrupt" THEN "interrupt" ELSE "none"

\* A variant of the handlers without the KeyboardInterrupt clause.
ExceptClauseNoInterrupt(cls) ==
    IF IsException(cls) THEN "error" ELSE "none"

\* Which except clause of the try statement around subprocess.run takes an
\* exception raised in its body.
ExceptClause(cls) ==
    IF cls = "KeyboardInterrupt" THEN "interrupt"
    ELSE IF IsException(cls) THEN "error"
    ELSE "none"

\* A variant whose error clause runs the command again at once.
TryResultRetry(exc) ==
    CASE ExceptClause(exc.cls) = "interrupt" ->
            [pc |-> "exited", status |-> 0, log |-> "exiting"]
      [] ExceptClause(exc.cls) = "error" ->
            [pc |-> "launch", status |-> Unset, log |-> "run_error"]
      [] OTHER -> Propagate(exc)

\* The outcome of raising exc in the body of that try statement.
TryResult(exc) ==
    CASE ExceptClause(exc.cls) = "interrupt" ->
            [pc |-> "exited", status |-> 0, log |-> "exiting"]
      [] ExceptClause(exc.cls) = "error" ->
            [pc |-> "get_next", status |-> Unset, log |-> "run_error"]
      [] OTHER -> Propagate(exc)

\* A variant of the classification that ends the process with the exit code
\* (sys.exit, which no except clause takes) without asking exit_on_error.
ClassifiedNoFlag(code) ==
    IF code # 0 /\ code \notin ignored_codes
    THEN Propagate(Exc("Exit", code))
    ELSE [pc |-> "get_next", status |-> Unset, log |-> "status"]

\* The same, without asking ignored_codes.
ClassifiedNoIgnore(code) ==
    IF code # 0 /\ exit_on_error
    THEN Propagate(Exc("Exit", code))
    ELSE [pc |-> "get_next", status |-> Unset, log |-> "status"]

\* What main() does with the exit code of a completed command.
Classified(code) ==
    IF code # 0 /\ exit_on_error /\ code \notin ignored_codes
    THEN TryResult(Exc("Exit", code))
    ELSE [pc |-> "get_next", status |-> Unset, log |-> "status"]

(***************************************************************************)
(* The run loop.                                                           *)
(***************************************************************************)
ExitCodes == 0..MaxCode

\* A variant that lets the child inherit the standard input (the default of
\* subprocess.run).
ChildStdinInherit == "sys.stdin"

\* stdin=sys.stdin if stdin else subprocess.DEVNULL
ChildStdin == IF stdin THEN "sys.stdin" ELSE "DEVNULL"

\* stdout=sys.stdout if not no_output else subprocess.DEVNULL
ChildStdout == IF ~no_output THEN "sys.stdout" ELSE "DEVNULL"

\* stderr=sys.stdout if stderr_to_stdout else sys.stderr
ChildStderr == IF stderr_to_stdout THEN "sys.stdout" ELSE "sys.stderr"

IgnoredChoices == { {}, {2}, {1, 3} }

\* The state of main() at its first statement, the options left aside.
Started ==
    /\ now = 0
    /\ pc = "init"
    /\ cur = Unset
    /\ anchor = Unset
    /\ next_run = Unset
    /\ secs = Unset
    /\ wake = Unset
    /\ running = 0
    /\ returncode = Unset
    /\ status = Unset
    /\ sigint = "none"
    /\ log = "none"
    /\ runs = <<>>
    /\ launches = 0
    /\ waits = 0
    /\ executed = <<>>
    /\ child_stdin = "none"
    /\ child_stdout = "none"
    /\ child_stderr = "none"

\* Every schedule and exit-code policy, the stream options at their defaults.
Init ==
    /\ cron \in CronExprs
    /\ exit_on_error \in BOOLEAN
    /\ ignored_codes \in IgnoredChoices
    /\ stdin = FALSE
    /\ stderr_to_stdout = FALSE
    /\ no_output = FALSE
    /\ Started

\* Every combination of the stream options, under the schedule "* * * * *".
InitIO ==
    /\ cron = <<Star(1), Star(1), Star(1), Star(1), Star(1)>>
    /\ exit_on_error \in BOOLEAN
    /\ ignored_codes = {}
    /\ stdin \in BOOLEAN
    /\ stderr_to_stdout \in BOOLEAN
    /\ no_output \in BOOLEAN
    /\ Started

\* Control leaves the current statement with outcome r.
Leave(r) ==
    /\ pc' = r.pc
    /\ status' = r.status
    /\ log' = r.log

\* The wall clock advances, whatever main() is doing.
Tick ==
    /\ pc # "exited"
    /\ now < MaxTime
    /\ now' = now + 1
    /\ UNCHANGED <<config, spawned, pc, cur, anchor, next_run, secs, wake, running,
                   returncode, status, sigint, log, runs, launches, waits>>

\* A variant that enters the loop without validating the expression.
ConstructUnchecked ==
    /\ pc = "init"
    /\ cur' = now
    /\ anchor' = now
    /\ pc' = "get_next"
    /\ log' = "command"
    /\ UNCHANGED <<config, spawned, now, next_run, secs, wake, running, returncode,
                   status, sigint, runs, launches, waits>>

\* iter = croniter(cron, start_time=datetime.now())
Construct ==
    /\ pc = "init"
    /\ IF CronValid(cron)
       THEN /\ cur' = now
            /\ anchor' = now
            /\ pc' = "get_next"
            /\ log' = "command"
            /\ UNCHANGED status
       ELSE /\ Leave(Propagate(Exc("CroniterBadCronError", 0)))
            /\ UNCHANGED <<cur, anchor>>
    /\ UNCHANGED <<config, spawned, now, next_run, secs, wake, running, returncode,
                   sigint, runs, launches, waits>>

\* next_run = iter.get_next(datetime)
GetNextRun ==
    /\ pc = "get_next"
    /\ next_run' = GetNext(cron, cur)
    /\ cur' = next_run'
    /\ runs' = Append(runs, next_run')
    /\ pc' = "check"
    /\ UNCHANGED <<config, spawned, now, anchor, secs, wake, running, returncode,
                   status, sigint, log, launches, waits>>

\* A variant that compares with < : a next run equal to the clock is awaited.
CheckPastStrict ==
    /\ pc = "check"
    /\ IF next_run < now
       THEN /\ pc' = "get_next"
            /\ log' = "past"
       ELSE /\ pc' = "secs"
            /\ log' = "next_run_at"
    /\ UNCHANGED <<config, spawned, now, cur, anchor, next_run, secs, wake, running,
                   returncode, status, sigint, runs, launches, waits>>

\* A variant that repeats the check without asking the calculator again.
CheckPastNoRequery ==
    /\ pc = "check"
    /\ IF next_run <= now
       THEN /\ pc' = "check"
            /\ log' = "past"
       ELSE /\ pc' = "secs"
            /\ log' = "next_run_at"
    /\ UNCHANGED <<config, spawned, now, cur, anchor, next_run, secs, wake, running,
                   returncode, status, sigint, runs, launches, waits>>

\* if next_run <= datetime.now(): warn and continue
CheckPast ==
    /\ pc = "check"
    /\ IF next_run <= now
       THEN /\ pc' = "get_next"
            /\ log' = "past"
       ELSE /\ pc' = "secs"
            /\ log' = "next_run_at"
    /\ UNCHANGED <<config, spawned, now, cur, anchor, next_run, secs, wake, running,
                   returncode, status, sigint, runs, launches, waits>>

\* secs = (next_run - datetime.now()).total_seconds(); time.sleep(secs)
\* time.sleep raises ValueError for a negative duration, outside any try.
\* secs is the duration rounded up to whole minutes: when the clock is in
\* the minute that starts at next_run the duration is 0 or negative,
\* depending on the part of the clock below the minute.
StartSleep ==
    /\ pc = "secs"
    /\ secs' = next_run - now
    /\ waits' = waits + 1
    /\ \E negative \in {secs' < 0} \cup {secs' <= 0} :
          IF negative
          THEN /\ Leave(Propagate(Exc("ValueError", 0)))
               /\ UNCHANGED wake
          ELSE /\ wake' = now + secs'
               /\ pc' = "sleep"
               /\ UNCHANGED <<status, log>>
    /\ UNCHANGED <<config, spawned, now, cur, anchor, next_run, running, returncode,
                   sigint, runs, launches>>

\* A variant in which the wait returns before the duration has elapsed.
EndSleepEarly ==
    /\ pc = "sleep"
    /\ pc' = "launch"
    /\ log' = "running_job"
    /\ UNCHANGED <<config, spawned, now, cur, anchor, next_run, secs, wake, running,
                   returncode, status, sigint, runs, launches, waits>>

\* time.sleep(secs) returns once the duration has elapsed.
EndSleep ==
    /\ pc = "sleep"
    /\ now >= wake
    /\ pc' = "launch"
    /\ log' = "running_job"
    /\ UNCHANGED <<config, spawned, now, cur, anchor, next_run, secs, wake, running,
                   returncode, status, sigint, runs, launches, waits>>

\* A variant whose handler swallows the interrupt: the loop goes on.
SleepInterruptedSwallow ==
    /\ pc = "sleep"
    /\ sigint' = "sleep"
    /\ pc' = "launch"
    /\ log' = "running_job"
    /\ UNCHANGED <<config, spawned, now, cur, anchor, next_run, secs, wake, running,
                   returncode, status, runs, launches, waits>>

\* KeyboardInterrupt in time.sleep: logged, raise typer.Exit(0).
SleepInterrupted ==
    /\ pc = "sleep"
    /\ sigint' = "sleep"
    /\ Leave([pc |-> "exited", status |-> 0, log |-> "exiting"])
    /\ UNCHANGED <<config, spawned, now, cur, anchor, next_run, secs, wake, running,
                   returncode, runs, launches, waits>>

\* A variant that starts the command without waiting for it (Popen).
SpawnCommandNoWait ==
    /\ pc = "launch"
    /\ launches' = launches + 1
    /\ running' = running + 1
    /\ pc' = "get_next"
    /\ executed' = Append(executed, next_run)
    /\ child_stdin' = ChildStdin
    /\ child_stdout' = ChildStdout
    /\ child_stderr' = ChildStderr
    /\ UNCHANGED <<config, now, cur, anchor, next_run, secs, wake, returncode,
                   status, sigint, log, runs, waits>>

\* subprocess.run(command, ...) starts the child and blocks on it, or fails
\* to start it (OSError) inside the try statement.
SpawnCommand ==
    /\ pc = "launch"
    /\ launches' = launches + 1
    /\ executed' = Append(executed, next_run)
    /\ \E started \in BOOLEAN :
          IF started
          THEN /\ running' = running + 1
               /\ child_stdin' = ChildStdin
               /\ child_stdout' = ChildStdout
               /\ child_stderr' = ChildStderr
               /\ pc' = "running"
               /\ UNCHANGED <<status, log>>
          ELSE /\ Leave(TryResult(Exc("OSError", 0)))
               /\ UNCHANGED <<running, child_stdin, child_stdout, child_stderr>>
    /\ UNCHANGED <<config, now, cur, anchor, next_run, secs, wake, returncode,
                   sigint, runs, waits>>

\* The child exits with some code and subprocess.run returns.
CommandCompletes ==
    /\ pc = "running"
    /\ \E code \in ExitCodes : returncode' = code
    /\ running' = running - 1
    /\ pc' = "classify"
    /\ UNCHANGED <<config, spawned, now, cur, anchor, next_run, secs, wake, status,
                   sigint, log, runs, launches, waits>>

\* KeyboardInterrupt while subprocess.run waits: it kills the child and
\* re-raises inside the try statement.
RunInterrupted ==
    /\ pc = "running"
    /\ sigint' = "running"
    /\ running' = running - 1
    /\ Leave(TryResult(Exc("KeyboardInterrupt", 0)))
    /\ UNCHANGED <<config, spawned, now, cur, anchor, next_run, secs, wake, returncode,
                   runs, launches, waits>>

\* if result.returncode != 0: ... raise typer.Exit(result.returncode) ...
Classify ==
    /\ pc = "classify"
    /\ Leave(Classified(returncode))
    /\ UNCHANGED <<config, spawned, now, cur, anchor, next_run, secs, wake, running,
                   returncode, sigint, runs, launches, waits>>

\* KeyboardInterrupt while the exit code is examined, inside the try.
ClassifyInterrupted ==
    /\ pc = "classify"
    /\ sigint' = "classify"
    /\ Leave(TryResult(Exc("KeyboardInterrupt", 0)))
    /\ UNCHANGED <<config, spawned, now, cur, anchor, next_run, secs, wake, running,
                   returncode, runs, launches, waits>>

\* KeyboardInterrupt at a statement that no try statement encloses.
BareInterrupted ==
    /\ pc \in {"init", "get_next", "check", "secs", "launch"}
    /\ sigint' = pc
    /\ Leave(Propagate(Exc("KeyboardInterrupt", 0)))
    /\ UNCHANGED <<config, spawned, now, cur, anchor, next_run, secs, wake, running,
                   returncode, runs, launches, waits>>

Next ==
    \/ Tick
    \/ Construct
    \/ GetNextRun
    \/ CheckPast
    \/ StartSleep
    \/ EndSleep
    \/ SleepInterrupted
    \/ SpawnCommand
    \/ CommandCompletes
    \/ RunInterrupted
    \/ Classify
    \/ ClassifyInterrupted
    \/ BareInterrupted

Spec == Init /\ [][Next]_vars

\* The same loop under every combination of the stream options.
SpecIO == InitIO /\ [][Next]_vars

\* main() is one thread that nothing suspends: a statement that can run does
\* run.  The clock and the operator are under no such obligation.
SpecLive ==
    /\ Init
    /\ [][Next]_vars
    /\ WF_vars(GetNextRun)
    /\ WF_vars(CheckPast)

TypeOK ==
    /\ cron \in CronExprs
    /\ exit_on_error \in BOOLEAN
    /\ ignored_codes \in IgnoredChoices
    /\ stdin \in BOOLEAN /\ stderr_to_stdout \in BOOLEAN /\ no_output \in BOOLEAN
    /\ now \in 0..MaxTime
    /\ pc \in {"init", "get_next", "check", "secs", "sleep", "launch",
               "running", "classify", "exited"}
    /\ running \in Nat
    /\ returncode \in ExitCodes \cup {Unset}
    /\ status \in Int
    /\ launches \in Nat
    /\ waits \in Nat

(***************************************************************************)
(* Properties of the run loop.                                             *)
(***************************************************************************)
LoopPhases == {"get_next", "check", "secs", "sleep", "launch", "running",
               "classify"}

\* The step in which main() examines the exit code of a completed command
\* (and no interrupt arrives).
ClassifyStep == pc = "classify" /\ pc' # "classify" /\ sigint' = sigint

\* The process has ended: nothing is computed, awaited or executed any more.
Halted == pc = "exited" => UNCHANGED <<pc, status, runs, waits, launches, running>>

\* C1: with exit_on_error set, a command completing with a non-zero exit
\* code outside ignored_codes ends the loop, and the exit status of the
\* process is that code.
C1_FatalCodeTerminates ==
    [][(ClassifyStep /\ exit_on_error /\ returncode # 0
            /\ returncode \notin ignored_codes)
        => (pc' = "exited" /\ status' = returncode)]_vars

\* C2: with exit_on_error unset, a command completing with a non-zero exit
\* code never ends the loop: the loop goes back to computing the next run,
\* however many times this happens.
C2_NoFlagNeverTerminates ==
    [][(ClassifyStep /\ ~exit_on_error /\ returncode # 0)
        => (pc' = "get_next" /\ status' = Unset)]_vars

\* Two commands have run, the last one exited non-zero without the flag, and
\* a further next run has been computed.
C2_Witness ==
    /\ ~exit_on_error
    /\ returncode \in 1..MaxCode
    /\ launches >= 2
    /\ pc = "check"
    /\ log = "status"
    /\ Len(runs) > launches

\* C3: with exit_on_error set, a command completing with a non-zero exit
\* code that is in ignored_codes does not end the loop: the loop goes back
\* to computing the next run.
C3_IgnoredCodeContinues ==
    [][(ClassifyStep /\ exit_on_error /\ returncode # 0
            /\ returncode \in ignored_codes)
        => (pc' = "get_next" /\ status' = Unset)]_vars

\* A command exited with an ignored code under the flag, and a further next
\* run has been computed.
C3_Witness ==
    /\ exit_on_error
    /\ returncode # 0
    /\ returncode \in ignored_codes
    /\ pc = "check"
    /\ log = "status"
    /\ launches >= 1
    /\ Len(runs) > launches

\* The step in which subprocess.run fails to start the command.
SpawnFailureStep ==
    pc = "launch" /\ launches' = launches + 1 /\ running' = running

\* C4: a failure to start the command never ends the loop, whatever
\* exit_on_error and ignored_codes are: it is logged as an error and the loop
\* goes back to computing the next run.
C4_SpawnFailureContinues ==
    [][SpawnFailureStep
        => (pc' = "get_next" /\ status' = Unset /\ log' = "run_error")]_vars

\* A spawn failure under exit_on_error (no command ever completed), after
\* which a further next run has been computed.
C4_Witness ==
    /\ exit_on_error
    /\ ignored_codes = {}
    /\ returncode = Unset
    /\ launches >= 1
    /\ log = "run_error"
    /\ pc = "check"
    /\ Len(runs) > launches

\* C5: an interrupt that arrives during the wait ends the process with exit
\* status 0 without starting the command, in that cycle or later.
C5_InterruptDuringWait ==
    [][/\ (pc = "sleep" /\ sigint' # sigint)
            => (pc' = "exited" /\ status' = 0 /\ launches' = launches)
       /\ Halted]_vars

\* The process was interrupted during a wait: one more wait than launches.
C5_Witness ==
    /\ sigint = "sleep"
    /\ pc = "exited"
    /\ status = 0
    /\ waits = launches + 1
    /\ log = "exiting"

\* C6: an interrupt that arrives while a command runs ends the process with
\* exit status 0, whatever exit_on_error and ignored_codes are, and nothing
\* further is computed, awaited or executed.
C6_InterruptDuringRun ==
    [][/\ (pc = "running" /\ sigint' # sigint)
            => (pc' = "exited" /\ status' = 0 /\ running' = 0)
       /\ (sigint = "running" => UNCHANGED <<pc, status, runs, waits, launches>>)]_vars

\* The process was interrupted during an execution, under exit_on_error.
C6_Witness ==
    /\ sigint = "running"
    /\ pc = "exited"
    /\ status = 0
    /\ exit_on_error
    /\ ignored_codes = {}
    /\ launches >= 1

\* C7: an interrupt that arrives at any phase of the loop ends the process
\* with exit status 0.
C7_InterruptAlwaysClean ==
    sigint \in LoopPhases => (pc = "exited" /\ status = 0)

\* C8: with a cron expression that cannot be parsed the process ends with a
\* non-zero status before the loop is entered: no next run is computed, no
\* wait is started, no command is executed.
C8_InvalidCronFatal ==
    ~CronValid(cron) =>
        /\ pc \in {"init", "exited"}
        /\ pc = "exited" => status >= 1
        /\ runs = <<>>
        /\ next_run = Unset
        /\ waits = 0
        /\ launches = 0

\* The constructor refused the expression and the process has ended.
C8_Witness ==
    /\ ~CronValid(cron)
    /\ pc = "exited"
    /\ sigint = "none"
    /\ log = "traceback"
    /\ status = 1

\* C9: the next-run values obtained from the calculator are strictly
\* increasing, each is strictly after the anchor taken at startup, and the
\* value the loop holds is always the latest one.
C9_NextRunsIncrease ==
    /\ \A i \in 1..Len(runs) : runs[i] > anchor
    /\ \A i \in 1..(Len(runs) - 1) : runs[i] < runs[i + 1]
    /\ runs # <<>> => (next_run = runs[Len(runs)] /\ cur = next_run)

\* Several next runs were obtained, one of them by a recompute after a command
\* had run.
C9_Witness ==
    /\ Len(runs) >= 3
    /\ launches >= 1
    /\ log = "past"
    /\ pc = "check"

\* C10: at most one command runs at any time, and a child is alive only
\* while main() is blocked in subprocess.run: never while the next run is
\* computed or awaited.
C10_NoOverlap ==
    /\ running \in {0, 1}
    /\ running = 1 <=> pc = "running"
    /\ launches <= waits

\* A second wait is in progress after a command that ran past at least one
\* trigger instant.
C10_Witness ==
    /\ pc = "sleep"
    /\ launches = 1
    /\ waits = 2
    /\ Len(runs) >= 3
    /\ running = 0

\* The command completed with a non-zero code that the options make fatal.
FatalCode ==
    /\ exit_on_error
    /\ returncode \in 1..MaxCode
    /\ returncode \notin ignored_codes

\* C11: once the loop is entered, the process ends only by an operator
\* interrupt or by a fatal exit code: without either it never stops or
\* crashes, for instance from the wait being given an invalid duration.
C11_NoOtherTerminalState ==
    (anchor # Unset /\ sigint = "none" /\ ~FatalCode) => pc # "exited"

\* C12: the child's standard error is the loop's standard error without
\* stderr_to_stdout, and with it the destination of the child's standard
\* output: discarded when no_output is set too.
C12_StderrFollowsStdout ==
    child_stderr # "none" =>
        child_stderr = IF stderr_to_stdout THEN child_stdout ELSE "sys.stderr"

\* C13: the child has the loop's standard input exactly when stdin is set;
\* without it the child's standard input is the null device, in every cycle
\* and whatever the other options are.
C13_StdinOnlyIfEnabled ==
    /\ running = 1 => child_stdin # "none"
    /\ child_stdin # "none" =>
          /\ child_stdin = "sys.stdin" <=> stdin
          /\ ~stdin => child_stdin = "DEVNULL"

\* A second command runs on the null device with both output options set.
C13_Witness ==
    /\ ~stdin
    /\ no_output
    /\ stderr_to_stdout
    /\ running = 1
    /\ launches = 2
    /\ child_stdin = "DEVNULL"

\* The step in which main() compares next_run with the clock.
CheckStep == pc = "check" /\ pc' # "check" /\ sigint' = sigint

\* C14: a next run that is not strictly after the clock when checked is
\* neither awaited nor executed: the loop asks the calculator again, and
\* what it gets is a later instant, so the missed one is never taken up.
C14_PastRunSkipped ==
    [][/\ (CheckStep /\ next_run <= now)
            => /\ pc' = "get_next"
               /\ UNCHANGED <<waits, launches, executed, next_run>>
       /\ (pc = "get_next" /\ pc' = "check")
            => /\ next_run' > next_run
               /\ \A i \in 1..Len(executed) : executed[i] # next_run']_vars

\* A trigger instant missed while a command ran has just been skipped.
C14_Witness ==
    /\ pc = "get_next"
    /\ log = "past"
    /\ launches >= 1
    /\ next_run < now
    /\ executed[Len(executed)] < next_run

\* C15: the recompute loop ends: from a state in which the next run is not
\* in the future the loop gets to a next run that passes the check and goes
\* on to the wait (unless the operator interrupts it).
C15_RecomputeTerminates ==
    (pc = "check" /\ next_run <= now) ~> (pc = "secs" \/ sigint # "none")

\* Two candidates in the past were dropped before the first wait.
C15_Witness ==
    /\ pc = "secs"
    /\ waits = 0
    /\ Len(runs) >= 3
    /\ next_run > now
    /\ runs[Len(runs) - 1] <= now

\* C16: a command is never run again at once: every execution is for a next
\* run strictly later than the one of the execution before, and only when
\* that instant has been reached.
C16_RetryAtNextOccurrence ==
    /\ Len(executed) = launches
    /\ \A i \in 1..(Len(executed) - 1) : executed[i] < executed[i + 1]
    /\ \A i \in 1..Len(executed) :
          /\ executed[i] <= now
          /\ \E j \in 1..Len(runs) : runs[j] = executed[i]
    /\ pc = "launch" => \A i \in 1..Len(executed) : executed[i] < next_run

\* A command that exited non-zero runs again, for a later next run.
C16_Witness ==
    /\ pc = "running"
    /\ launches = 2
    /\ returncode \in 1..MaxCode
    /\ executed[1] < executed[2]

\* C17: the duration handed to the wait is strictly positive, however far
\* the clock advances between the check and the computation of secs.
C17_SleepDurationPositive ==
    waits > 0 => secs > 0

\* C18: every execution directly follows a wait of the same iteration that
\* ran to its end, for a next run that was in the future when checked; a
\* next run is executed at most once, and there are never more executions
\* than next runs computed.
C18_ExecutionFollowsWait ==
    /\ [](/\ launches <= waits
          /\ waits <= Len(runs)
          /\ Cardinality({executed[i] : i \in 1..Len(executed)}) = Len(executed)
          /\ pc = "launch" =>
                /\ waits = launches + 1
                /\ secs >= 0
                /\ wake = next_run
                /\ now >= wake
                /\ sigint = "none")
    /\ [][/\ (pc' = "launch" /\ pc # "launch") => pc = "sleep"
          /\ (pc' = "sleep" /\ pc # "sleep") => pc = "secs"
          /\ (pc' = "secs" /\ pc # "secs") => (pc = "check" /\ next_run > now)
          /\ launches' # launches
                => /\ pc = "launch"
                   /\ launches' = launches + 1
                   /\ executed' = Append(executed, next_run)]_vars

\* Two commands have run, each after its own wait.
C18_Witness ==
    /\ pc = "classify"
    /\ launches = 2
    /\ waits = 2
    /\ Len(runs) >= 3

====
